---- MODULE Spec2Model ----
(***************************************************************************)
(* The voice-call component `Community` of src/components/WordCard.tsx:    *)
(* React state, the refs that own the audio context, the microphone        *)
(* stream, the capture nodes and the Gemini Live session, and the          *)
(* callbacks (getUserMedia, onopen, onmessage, onclose, onerror,           *)
(* onaudioprocess) that run against them.                                  *)
(*                                                                         *)
(* Every startCall gets a call number k.  The audio context, the           *)
(* microphone stream, the live session and the capture nodes created for   *)
(* (or by the callbacks of) call k carry the number k; a ref holds a       *)
(* number, or Null.  The callbacks of call k are closures of the render in *)
(* which startCall(k) was invoked: they read the refs at the time they     *)
(* run, but the React state (isMicOn) as it was in that render.            *)
(*                                                                         *)
(* Time is counted in output samples (1 / OUTPUT_SAMPLE_RATE seconds), so  *)
(* an AudioBuffer of n samples has duration n.                             *)
(*                                                                         *)
(* The codec functions of the same file (floatTo16BitPCM, the base64 pair, *)
(* the Int16 decode of playAudioChunk) are operators; SpecCodec applies    *)
(* them to one input at a time, outside any call.                          *)
(*                                                                         *)
(* The word list of src/services/storage.ts, the lookup, daily and news    *)
(* handlers of src/App.tsx and the chat tutor of src/unnamed/part_001 have *)
(* their own variables and specifications; an awaited service call is a    *)
(* numbered request that is answered by a later action.                    *)
(***************************************************************************)
EXTENDS Integers, Sequences, FiniteSets, TLC

\* ----------------------------------------------------------------- bounds
MaxCalls == 2
MaxFrames == 2
MaxChunks == 2
MaxTime == 2
MaxChunkBytes == 4
\* Calls started in a run of the playback scheduler.
MaxPlaybackCalls == 1
\* Samples of a frame handed to the codec, and how far beyond [-1, 1] a
\* sample may lie (in units of 1 / SampleScale).
MaxSamples == 2
MaxOverdrive == 2
\* Bytes of a buffer handed to the base64 functions.
MaxBytes == 3
\* Words saved to the list in a run (each gets a fresh id).
MaxSaves == 3
\* API requests the App issues in a run, days it runs over, and entries in
\* a suggestion response.
MaxRequests == 3
MaxDays == 2
MaxSuggested == 6
\* Entries of the word list a news article is asked for.
MaxListLen == 11
\* Messages the chat tutor sends to the model in a run.
MaxSends == 2

\* ------------------------------------------------------ program constants
INPUT_SAMPLE_RATE == 16000
OUTPUT_SAMPLE_RATE == 24000
\* json.map(...).slice(0, 5)
SuggestionLimit == 5
\* if (myList.length < 5)
MinNewsWords == 5
\* shuffled.slice(0, 10)
MaxNewsWords == 10

Null == 0
\* activeCall holds a profile id, or null.
NoCall == "null"
Calls == 1..MaxCalls
Profiles == {"priya", "rahul", "group"}

\* Samples are fixed-point: the float s is the integer s * SampleScale.  The
\* scale is no power of two, so that s * 32767 and s * 32768 have fractions.
SampleScale == 10
\* The frames the microphone delivers: a silent one and a loud one.
Frames == {<<0, 0>>, <<3, -4>>}
\* Byte lengths of the audio payload of a server message; 0 is a message
\* without audio data (or with the empty string, which is falsy).
ChunkBytes == 0..MaxChunkBytes

VARIABLES
    \* React state of Community
    activeCall, isMicOn, connectionStatus, volumeLevel,
    \* refs
    audioContextRef, inputSourceRef, processorRef, streamRef,
    nextStartTimeRef, sessionPromiseRef,
    \* the platform: what the refs point at
    numCalls,      \* startCall invocations so far
    startPc,       \* where the async startCall(k) stands
    micClosure,    \* isMicOn as captured by the closures of call k
    ctxState,      \* AudioContext k: none / running / closed
    currentTime,   \* currentTime of the running AudioContext
    streamState,   \* MediaStream k: none / live / stopped
    session,       \* live session k: none/pending/open/closing/errored/closed
    resolved,      \* the promise returned by connect for call k has resolved
    thenQ,         \* callbacks waiting on the promise of session k
    procState,     \* ScriptProcessor made by onopen of k
    srcState,      \* MediaStreamSource made by onopen of k
    procCtx,       \* the context the nodes of k live in
    srcStream,     \* the stream the source of k taps
    \* observation: what the component did to the outside
    sent,          \* sendRealtimeInput calls, in order
    schedLog,      \* source.start calls, in order
    numFrames,     \* onaudioprocess invocations so far
    lastOp,        \* the handler that ran last, and what it was given
    \* the codec functions, applied to one input outside any call
    codecPc,       \* off / input / encoded / decoded
    pcmInput,      \* Float32Array handed to floatTo16BitPCM
    pcmOutput,     \* the Int16Array it returns
    channelData,   \* the samples playAudioChunk reads back from its bytes
    b64Buffer,     \* bytes handed to arrayBufferToBase64
    b64Text,       \* the base64 string it returns
    b64Bytes,      \* the Uint8Array base64ToUint8Array makes of the string
    \* src/services/storage.ts
    store,         \* the word list under localStorage key MY_LIST, parsed
    nextId,        \* ids handed out by crypto.randomUUID so far
    storageOp,     \* the StorageService call made last, and what it did
    \* React state of App (src/App.tsx)
    loading, error, lookupQuery, lookupResult, suggestions, showSuggestions,
    dailyTask, myList, newsArticle,
    \* what App runs against
    dailyStored,   \* the task under localStorage key DAILY_TASK, parsed
    today,         \* the day new Date() falls on
    debounce,      \* the query the pending setTimeout(fetchSuggestions) has
    requests,      \* the requests App has issued, in order
    pending,       \* the numbers of those not yet answered
    appOp,         \* the App handler that ran last
    \* React state of ChatTutor (src/unnamed/part_001)
    messages, isLoading, isListening,
    chatInput,     \* the state `input` (the text box)
    \* what ChatTutor runs against
    recognition,   \* the SpeechRecognition started last and its closure
    sendLog,       \* the chat.sendMessage calls, in order
    chatPending,   \* the numbers of those not yet answered
    chatOp         \* the ChatTutor handler that ran last

reactVars == <<activeCall, isMicOn, connectionStatus, volumeLevel>>
refVars == <<audioContextRef, inputSourceRef, processorRef, streamRef,
             nextStartTimeRef, sessionPromiseRef>>
platformVars == <<numCalls, startPc, micClosure, ctxState, currentTime,
                  streamState, session, resolved, thenQ, procState,
                  srcState, procCtx, srcStream>>
obsVars == <<sent, schedLog, numFrames>>
callVars == <<reactVars, refVars, platformVars, obsVars, lastOp>>
codecVars == <<codecPc, pcmInput, pcmOutput, channelData, b64Buffer, b64Text,
               b64Bytes>>
storageVars == <<store, nextId, storageOp>>
appState == <<loading, error, lookupQuery, lookupResult, suggestions,
              showSuggestions, dailyTask, newsArticle>>
appPlatform == <<dailyStored, today, debounce, requests, pending, appOp>>
appVars == <<appState, myList, appPlatform>>
chatVars == <<messages, chatInput, isLoading, isListening, recognition,
              sendLog, chatPending, chatOp>>
nonCallVars == <<codecVars, storageVars, appVars, chatVars>>
vars == <<callVars, codecVars, storageVars, appVars, chatVars>>

\* The record kept of the handler that ran last: its name, the call whose
\* closure it is, the payload length of a message, and the state the
\* session was in when its socket closed.
Op(name, k, n, was) == [op |-> name, call |-> k, n |-> n, was |-> was]

\* ------------------------------------------------------------ pure helpers
Max(a, b) == IF a >= b THEN a ELSE b
Min(a, b) == IF a <= b THEN a ELSE b

\* Math.sqrt on the fixed-point lattice: the integer square root.
Sqrt(n) == CHOOSE r \in 0..n : r * r <= n /\ (r + 1) * (r + 1) > n

RECURSIVE SumSq(_)
SumSq(f) == IF f = <<>> THEN 0 ELSE Head(f) * Head(f) + SumSq(Tail(f))

\* sqrt(sum / inputData.length)
Rms(f) == Sqrt(SumSq(f) \div Len(f))

\* Division truncating toward zero, as the Int16Array store does.
TruncDiv(a, b) == IF a >= 0 THEN a \div b ELSE -((-a) \div b)

\* What an Int16Array element holds after a number is stored in it: the
\* number modulo 2^16, read as a signed 16-bit integer.
ToInt16(v) == ((v + 32768) % 65536) - 32768

\* An encoder that scales both signs by 0x8000.
PcmSampleSymmetric(x) ==
    LET s == Max(-SampleScale, Min(SampleScale, x))
    IN ToInt16(TruncDiv(s * 32768, SampleScale))

\* An encoder that forgets to clamp.
PcmSampleNoClamp(x) ==
    ToInt16(IF x < 0 THEN TruncDiv(x * 32768, SampleScale)
                     ELSE TruncDiv(x * 32767, SampleScale))

\* One sample of floatTo16BitPCM.
PcmSample(x) ==
    LET s == Max(-SampleScale, Min(SampleScale, x))
    IN ToInt16(IF s < 0 THEN TruncDiv(s * 32768, SampleScale)
                        ELSE TruncDiv(s * 32767, SampleScale))

floatTo16BitPCM(input) == [i \in 1..Len(input) |-> PcmSample(input[i])]

RECURSIVE Int16Bytes(_)
\* output.buffer: the bytes of an Int16Array, two per element, low byte
\* first, negative numbers in two's complement.
Int16Bytes(pcm) ==
    IF pcm = <<>> THEN <<>>
    ELSE LET u == Head(pcm) % 65536
         IN <<u % 256, u \div 256>> \o Int16Bytes(Tail(pcm))

\* view.getInt16(offset, true) on the bytes b (offset counted from 0).
GetInt16(b, offset) ==
    LET u == b[offset + 1] + 256 * b[offset + 2]
    IN IF u >= 32768 THEN u - 65536 ELSE u

\* The samples playAudioChunk writes for the bytes b, in units of
\* 1 / 32768: channelData[i] = pcm / 32768.0.
PlayedSamples(b) == [i \in 1..(Len(b) \div 2) |-> GetInt16(b, 2 * (i - 1))]

\* ------------------------------------------------------------------ base64
\* A base64 string is the sequence of the alphabet indices (0..63) of its
\* characters; Pad is '='.
Pad == 64

RECURSIVE btoa(_)
\* btoa on the binary string bin (a sequence of char codes 0..255): three
\* bytes make four characters; a last group of one or two bytes is padded.
btoa(bin) ==
    IF Len(bin) = 0 THEN <<>>
    ELSE IF Len(bin) = 1
    THEN <<bin[1] \div 4, (bin[1] % 4) * 16, Pad, Pad>>
    ELSE IF Len(bin) = 2
    THEN <<bin[1] \div 4, (bin[1] % 4) * 16 + bin[2] \div 16,
           (bin[2] % 16) * 4, Pad>>
    ELSE <<bin[1] \div 4, (bin[1] % 4) * 16 + bin[2] \div 16,
           (bin[2] % 16) * 4 + bin[3] \div 64, bin[3] % 64>>
         \o btoa(SubSeq(bin, 4, Len(bin)))

RECURSIVE FromSextets(_)
\* The bytes spelled by the characters d: four characters make three
\* bytes; a last group of two or three makes one or two.
FromSextets(d) ==
    IF Len(d) < 2 THEN <<>>
    ELSE IF Len(d) = 2 THEN <<d[1] * 4 + d[2] \div 16>>
    ELSE IF Len(d) = 3
    THEN <<d[1] * 4 + d[2] \div 16, (d[2] % 16) * 16 + d[3] \div 4>>
    ELSE <<d[1] * 4 + d[2] \div 16, (d[2] % 16) * 16 + d[3] \div 4,
           (d[3] % 4) * 64 + d[4]>>
         \o FromSextets(SubSeq(d, 5, Len(d)))

\* The string without its one or two trailing '='.
StripPad(t) ==
    IF Len(t) >= 2 /\ t[Len(t)] = Pad /\ t[Len(t) - 1] = Pad
    THEN SubSeq(t, 1, Len(t) - 2)
    ELSE IF Len(t) >= 1 /\ t[Len(t)] = Pad THEN SubSeq(t, 1, Len(t) - 1)
    ELSE t

\* A decoder that reads '=' as the character 'A' (six zero bits).
atobPadAsZero(t) ==
    FromSextets([i \in 1..Len(t) |-> IF t[i] = Pad THEN 0 ELSE t[i]])

\* atob: the binary string (char codes) a base64 string spells.
atob(t) == FromSextets(StripPad(t))

\* String.fromCharCode(c): the UTF-16 code unit c modulo 2^16.
fromCharCode(c) == c % 65536

arrayBufferToBase64(buffer) ==
    btoa([i \in 1..Len(buffer) |-> fromCharCode(buffer[i])])

\* bytes[i] = binaryString.charCodeAt(i), stored in a Uint8Array.
base64ToUint8Array(base64) ==
    LET binaryString == atob(base64)
    IN [i \in 1..Len(binaryString) |-> binaryString[i] % 256]

\* The inputs the codec functions are applied to.
SampleRange ==
    (-(SampleScale + MaxOverdrive))..(SampleScale + MaxOverdrive)
PcmInputs == UNION {[1..n -> SampleRange] : n \in 1..MaxSamples}
\* Every length up to MaxBytes over the extreme and the middle byte values,
\* and every byte value on its own.
ByteVals == {0, 1, 127, 128, 255}
Buffers ==
    UNION {[1..n -> ByteVals] : n \in 0..MaxBytes}
        \cup {<<b>> : b \in 0..255}

InitCall ==
    /\ activeCall = NoCall
    /\ isMicOn = TRUE
    /\ connectionStatus = "idle"
    /\ volumeLevel = 0
    /\ audioContextRef = Null
    /\ inputSourceRef = Null
    /\ processorRef = Null
    /\ streamRef = Null
    /\ nextStartTimeRef = 0
    /\ sessionPromiseRef = Null
    /\ numCalls = 0
    /\ startPc = [k \in Calls |-> "none"]
    /\ micClosure = [k \in Calls |-> TRUE]
    /\ ctxState = [k \in Calls |-> "none"]
    /\ currentTime = 0
    /\ streamState = [k \in Calls |-> "none"]
    /\ session = [k \in Calls |-> "none"]
    /\ resolved = [k \in Calls |-> FALSE]
    /\ thenQ = [k \in Calls |-> <<>>]
    /\ procState = [k \in Calls |-> "none"]
    /\ srcState = [k \in Calls |-> "none"]
    /\ procCtx = [k \in Calls |-> Null]
    /\ srcStream = [k \in Calls |-> Null]
    /\ sent = <<>>
    /\ schedLog = <<>>
    /\ numFrames = 0
    /\ lastOp = Op("none", Null, 0, "")

\* No codec input is under test while the component runs.
CodecOff ==
    /\ codecPc = "off"
    /\ pcmInput = <<>> /\ pcmOutput = <<>> /\ channelData = <<>>
    /\ b64Buffer = <<>> /\ b64Text = <<>> /\ b64Bytes = <<>>

\* Nothing has been saved: getSavedWords returns [] for an absent key.
StorageEmpty ==
    /\ store = <<>>
    /\ nextId = 0
    /\ storageOp = [op |-> "none", arg |-> [id |-> Null], ret |-> FALSE,
                    wrote |-> FALSE]

\* No task for today stored or shown.
NoTask == [date |-> 0, by |-> 0]
\* null, for the state that holds a string.
Nothing == "null"
\* clearTimeout has run, or the timer has fired.
NoTimer == "no timer"
\* No request issued.
NoRequests ==
    /\ requests = <<>> /\ pending = {}
    /\ appOp = [op |-> "none", req |-> 0]

\* App after its first render and effects, nothing typed or stored.
AppIdle ==
    /\ loading = FALSE /\ error = Nothing
    /\ lookupQuery = "" /\ lookupResult = Nothing
    /\ suggestions = <<>> /\ showSuggestions = FALSE
    /\ dailyTask = NoTask /\ dailyStored = NoTask
    /\ myList = <<>> /\ newsArticle = 0
    /\ today = 1 /\ debounce = NoTimer
    /\ NoRequests

\* The greeting the transcript starts with.
Greeting == [role |-> "model", text |-> "Hello!"]
\* ChatTutor after its first render.
ChatIdle ==
    /\ messages = <<Greeting>>
    /\ chatInput = "" /\ isLoading = FALSE /\ isListening = FALSE
    /\ recognition = [state |-> "off", isLoading |-> FALSE, input |-> ""]
    /\ sendLog = <<>> /\ chatPending = {}
    /\ chatOp = [op |-> "none", accepted |-> FALSE]

Init == InitCall /\ CodecOff /\ StorageEmpty /\ AppIdle /\ ChatIdle

\* ------------------------------------------------------------ startCall
\* The call view replaces the list view while activeCall is set, so the
\* buttons that invoke startCall exist only while activeCall is null.
StartCall(profile) ==
    /\ activeCall = NoCall
    /\ lastOp' = Op("StartCall", numCalls + 1, 0, "")
    /\ UNCHANGED nonCallVars
    /\ numCalls < MaxCalls
    /\ LET k == numCalls + 1 IN
        /\ numCalls' = k
        /\ activeCall' = profile
        /\ connectionStatus' = "connecting"
        /\ ctxState' = [ctxState EXCEPT ![k] = "running"]
        /\ audioContextRef' = k
        /\ currentTime' = 0
        /\ nextStartTimeRef' = 0
        /\ micClosure' = [micClosure EXCEPT ![k] = isMicOn]
        /\ startPc' = [startPc EXCEPT ![k] = "awaitMic"]
    /\ UNCHANGED <<isMicOn, volumeLevel, inputSourceRef, processorRef,
                   streamRef, sessionPromiseRef, streamState, session,
                   resolved, thenQ, procState, srcState, procCtx, srcStream,
                   sent, schedLog, numFrames>>

\* getUserMedia resolves: the rest of the try block of startCall(k) runs.
MicGranted(k) ==
    /\ startPc[k] = "awaitMic"
    /\ lastOp' = Op("MicGranted", k, 0, "")
    /\ UNCHANGED nonCallVars
    /\ startPc' = [startPc EXCEPT ![k] = "connectIssued"]
    /\ streamState' = [streamState EXCEPT ![k] = "live"]
    /\ streamRef' = k
    /\ session' = [session EXCEPT ![k] = "pending"]
    /\ sessionPromiseRef' = k
    /\ UNCHANGED <<reactVars, audioContextRef, inputSourceRef, processorRef,
                   nextStartTimeRef, numCalls, micClosure, ctxState,
                   currentTime, resolved, thenQ, procState, srcState, procCtx,
                   srcStream, sent, schedLog, numFrames>>

\* getUserMedia rejects: the catch block of startCall(k) runs.
MicDenied(k) ==
    /\ startPc[k] = "awaitMic"
    /\ lastOp' = Op("MicDenied", k, 0, "")
    /\ UNCHANGED nonCallVars
    /\ startPc' = [startPc EXCEPT ![k] = "failed"]
    /\ connectionStatus' = "error"
    /\ UNCHANGED <<activeCall, isMicOn, volumeLevel, refVars, numCalls,
                   micClosure, ctxState, currentTime, streamState, session,
                   resolved, thenQ, procState, srcState, procCtx, srcStream,
                   sent, schedLog, numFrames>>

\* ----------------------------------------------------- startAudioPipeline
PipelineReady ==
    audioContextRef # Null /\ streamRef # Null /\ sessionPromiseRef # Null

\* Invoked by onopen of call k; the nodes it makes carry the number k.
StartAudioPipeline(k) ==
    IF PipelineReady
    THEN /\ srcState' = [srcState EXCEPT ![k] = "connected"]
         /\ procState' = [procState EXCEPT ![k] = "connected"]
         /\ procCtx' = [procCtx EXCEPT ![k] = audioContextRef]
         /\ srcStream' = [srcStream EXCEPT ![k] = streamRef]
         /\ inputSourceRef' = k
         /\ processorRef' = k
    ELSE UNCHANGED <<srcState, procState, procCtx, srcStream,
                     inputSourceRef, processorRef>>

\* --------------------------------------------- the session promise's .then
\* A frame handed to sessionPromiseRef.current.then(...)
SendReq(frameNo, f, uiMic) ==
    [kind |-> "send", frame |-> frameNo, data |-> floatTo16BitPCM(f),
     uiMic |-> uiMic]
CloseReq == [kind |-> "close", frame |-> 0, data |-> <<>>, uiMic |-> FALSE]

\* The sendRealtimeInput call made for request e on session j.
SendRecord(e, j, st, deferred) ==
    [sess |-> j, frame |-> e.frame, data |-> e.data,
     rate |-> INPUT_SAMPLE_RATE, uiMic |-> e.uiMic, sessState |-> st,
     deferred |-> deferred]

\* A promise that runs its callbacks last attached first.
RECURSIVE RunThenQLifo(_, _, _, _)
RunThenQLifo(q, j, st, out) ==
    IF q = <<>> THEN <<st, out>>
    ELSE LET e == q[Len(q)]
             rest == SubSeq(q, 1, Len(q) - 1)
         IN IF e.kind = "close"
            THEN RunThenQLifo(rest, j, IF st = "open" THEN "closing" ELSE st,
                              out)
            ELSE RunThenQLifo(rest, j, st,
                              Append(out, SendRecord(e, j, st, TRUE)))

\* The callbacks queued on the promise of session j run in the order they
\* were attached, once it resolves: <<session state, calls made>>.
RECURSIVE RunThenQ(_, _, _, _)
RunThenQ(q, j, st, out) ==
    IF q = <<>> THEN <<st, out>>
    ELSE LET e == Head(q) IN
         IF e.kind = "close"
         THEN RunThenQ(Tail(q), j, IF st = "open" THEN "closing" ELSE st, out)
         ELSE RunThenQ(Tail(q), j, st,
                       Append(out, SendRecord(e, j, st, TRUE)))

\* ------------------------------------------------------ session callbacks
\* The socket of session k opens: callbacks.onopen runs, then the promise
\* returned by connect resolves and the callbacks attached to it run.
OnOpen(k) ==
    /\ session[k] = "pending"
    /\ lastOp' = Op("OnOpen", k, 0, "")
    /\ UNCHANGED nonCallVars
    /\ connectionStatus' = "connected"
    /\ StartAudioPipeline(k)
    /\ resolved' = [resolved EXCEPT ![k] = TRUE]
    /\ LET r == RunThenQ(thenQ[k], k, "open", <<>>) IN
        /\ session' = [session EXCEPT ![k] = r[1]]
        /\ sent' = sent \o r[2]
    /\ thenQ' = [thenQ EXCEPT ![k] = <<>>]
    /\ UNCHANGED <<activeCall, isMicOn, volumeLevel, audioContextRef,
                   streamRef, nextStartTimeRef, sessionPromiseRef, numCalls,
                   startPc, micClosure, ctxState, currentTime, streamState,
                   schedLog, numFrames>>

OnError(k) ==
    /\ session[k] \in {"pending", "open"}
    /\ lastOp' = Op("OnError", k, 0, "")
    /\ UNCHANGED nonCallVars
    /\ session' = [session EXCEPT ![k] = "errored"]
    /\ connectionStatus' = "error"
    /\ UNCHANGED <<activeCall, isMicOn, volumeLevel, refVars, numCalls,
                   startPc, micClosure, ctxState, currentTime, streamState,
                   resolved, thenQ, procState, srcState, procCtx, srcStream,
                   sent, schedLog, numFrames>>

\* ---------------------------------------------------------- playAudioChunk
\* A scheduler that trusts the cursor and never looks at the clock.
StartTimeCursorOnly(now, cursor) == cursor
\* Math.max(ctx.currentTime, nextStartTimeRef.current)
StartTime(now, cursor) == Max(now, cursor)

\* A scheduler that subtracts the chunk's duration.
NextStartMinusDuration(startTime, duration) == startTime - duration
\* A scheduler that forgets to advance the cursor by the chunk's duration.
NextStartNoDuration(startTime, duration) == startTime
\* startTime + audioBuffer.duration
NextStart(startTime, duration) == startTime + duration

\* createBuffer(1, n / 2, rate) throws for a length below 1, and getInt16
\* throws at the last, half-filled sample of an odd number of bytes.
ChunkPlayable(nBytes) == nBytes >= 2 /\ nBytes % 2 = 0

\* A handler that plays whatever audio arrives, context or not.
HasAudioAnyContext(nBytes) == nBytes # 0
\* audioData && audioContextRef.current, and the same test of the context
\* at the head of playAudioChunk.
HasAudio(nBytes) == nBytes # 0 /\ audioContextRef # Null

\* A handler that schedules a buffer for every message.
PlaysEveryMessage(nBytes) == audioContextRef # Null
\* The message gets a buffer source started.
Plays(nBytes) == HasAudio(nBytes) /\ ChunkPlayable(nBytes)

\* onmessage of session k with an audio payload of nBytes bytes.
OnMessage(k, nBytes) ==
    /\ session[k] \in {"open", "closing"}
    /\ lastOp' = Op("OnMessage", k, nBytes, "")
    /\ UNCHANGED nonCallVars
    /\ Len(schedLog) < MaxChunks
    /\ IF Plays(nBytes)
       THEN LET duration == nBytes \div 2
                startTime == StartTime(currentTime, nextStartTimeRef)
            IN /\ schedLog' = Append(schedLog,
                       [ctx |-> audioContextRef, now |-> currentTime,
                        cursor |-> nextStartTimeRef, start |-> startTime,
                        dur |-> duration])
               /\ nextStartTimeRef' = NextStart(startTime, duration)
       ELSE UNCHANGED <<schedLog, nextStartTimeRef>>
    /\ UNCHANGED <<reactVars, audioContextRef, inputSourceRef, processorRef,
                   streamRef, sessionPromiseRef, platformVars, sent,
                   numFrames>>

\* ------------------------------------------------------------------ endCall
\* sessionPromiseRef.current.then(s => s.close()) on session j, given the
\* session states sess: s.close() runs at once on a resolved promise and
\* waits in thenQ on a pending one.
CloseSession(sess, j) ==
    IF resolved[j] /\ sess[j] = "open"
    THEN [sess EXCEPT ![j] = "closing"]
    ELSE sess

\* The body of endCall, run on the session states sess.
EndCall(sess) ==
    /\ IF sessionPromiseRef # Null
       THEN /\ session' = CloseSession(sess, sessionPromiseRef)
            /\ thenQ' = IF resolved[sessionPromiseRef] THEN thenQ
                        ELSE [thenQ EXCEPT ![sessionPromiseRef] =
                                  Append(@, CloseReq)]
       ELSE /\ session' = sess
            /\ thenQ' = thenQ
    /\ sessionPromiseRef' = Null
    /\ streamState' = IF streamRef # Null
                      THEN [streamState EXCEPT ![streamRef] = "stopped"]
                      ELSE streamState
    /\ streamRef' = Null
    /\ procState' = IF processorRef # Null
                    THEN [procState EXCEPT ![processorRef] = "disconnected"]
                    ELSE procState
    /\ processorRef' = Null
    /\ srcState' = IF inputSourceRef # Null
                   THEN [srcState EXCEPT ![inputSourceRef] = "disconnected"]
                   ELSE srcState
    /\ inputSourceRef' = Null
    /\ ctxState' = IF audioContextRef # Null
                   THEN [ctxState EXCEPT ![audioContextRef] = "closed"]
                   ELSE ctxState
    /\ audioContextRef' = Null
    /\ currentTime' = 0
    /\ activeCall' = NoCall
    /\ connectionStatus' = "idle"
    /\ UNCHANGED <<isMicOn, volumeLevel, nextStartTimeRef, numCalls, startPc,
                   micClosure, resolved, procCtx, srcStream, sent, schedLog,
                   numFrames>>

\* The statements of endCall that call into the platform synchronously:
\* 2 stops the tracks of the stream, 3 disconnects the processor, 4
\* disconnects the source.  (s.close() runs in a promise callback and
\* context.close() settles through a promise: neither can leave endCall.)
ThrowingSteps == {2, 3, 4}

\* endCall, run on the session states sess, in which statement t throws:
\* endCall has no try block, so what precedes t has run and nothing from t
\* on has.
EndCallThrows(sess, t) ==
    /\ \/ t = 2 /\ streamRef # Null
       \/ t = 3 /\ processorRef # Null
       \/ t = 4 /\ inputSourceRef # Null
    /\ IF sessionPromiseRef # Null
       THEN /\ session' = CloseSession(sess, sessionPromiseRef)
            /\ thenQ' = IF resolved[sessionPromiseRef] THEN thenQ
                        ELSE [thenQ EXCEPT ![sessionPromiseRef] =
                                  Append(@, CloseReq)]
       ELSE /\ session' = sess
            /\ thenQ' = thenQ
    /\ sessionPromiseRef' = Null
    /\ streamState' = IF t > 2 /\ streamRef # Null
                      THEN [streamState EXCEPT ![streamRef] = "stopped"]
                      ELSE streamState
    /\ streamRef' = IF t > 2 THEN Null ELSE streamRef
    /\ procState' = IF t > 3 /\ processorRef # Null
                    THEN [procState EXCEPT ![processorRef] = "disconnected"]
                    ELSE procState
    /\ processorRef' = IF t > 3 THEN Null ELSE processorRef
    /\ UNCHANGED <<reactVars, inputSourceRef, audioContextRef,
                   nextStartTimeRef, numCalls, startPc, micClosure, ctxState,
                   currentTime, resolved, srcState, procCtx, srcStream,
                   sent, schedLog, numFrames>>

\* The hang-up button of the call view.
UserEndCall ==
    /\ activeCall # NoCall
    /\ lastOp' = Op("UserEndCall", Null, 0, "")
    /\ UNCHANGED nonCallVars
    /\ EndCall(session)

\* An onclose that, like onerror, only publishes a status.
OnCloseStatusOnly(k) ==
    /\ session[k] \in {"pending", "open", "closing", "errored"}
    /\ lastOp' = Op("OnClose", k, 0, session[k])
    /\ session' = [session EXCEPT ![k] = "closed"]
    /\ connectionStatus' = "idle"
    /\ UNCHANGED <<activeCall, isMicOn, volumeLevel, refVars, numCalls,
                   startPc, micClosure, ctxState, currentTime, streamState,
                   resolved, thenQ, procState, srcState, procCtx, srcStream,
                   sent, schedLog, numFrames, nonCallVars>>

\* The socket of session k closes: callbacks.onclose runs endCall.
OnClose(k) ==
    /\ session[k] \in {"pending", "open", "closing", "errored"}
    /\ lastOp' = Op("OnClose", k, 0, session[k])
    /\ UNCHANGED nonCallVars
    /\ EndCall([session EXCEPT ![k] = "closed"])

\* The hang-up button, when statement t of endCall throws.
UserEndCallThrows(t) ==
    /\ activeCall # NoCall
    /\ lastOp' = Op("UserEndCallThrows", Null, t, "")
    /\ UNCHANGED nonCallVars
    /\ EndCallThrows(session, t)

\* ---------------------------------------------------------------- toggleMic
\* The microphone button of the call view.
ToggleMic ==
    /\ activeCall # NoCall
    /\ lastOp' = Op("ToggleMic", Null, 0, "")
    /\ UNCHANGED nonCallVars
    /\ isMicOn' = ~isMicOn
    /\ UNCHANGED <<activeCall, connectionStatus, volumeLevel, refVars,
                   platformVars, sent, schedLog, numFrames>>

\* ----------------------------------------------------------- onaudioprocess
\* The mute flag the handler installed by call p reads: the isMicOn of the
\* render in which startCall(p) was invoked.
HandlerMicOn(p) == micClosure[p]

\* The level the handler publishes for frame f.
Level(f) == Rms(f)

\* The processor made by onopen of p delivers frame f.
OnAudioProcess(p, f) ==
    /\ procState[p] = "connected"
    /\ lastOp' = Op("OnAudioProcess", p, 0, "")
    /\ UNCHANGED nonCallVars
    /\ ctxState[procCtx[p]] = "running"
    /\ numFrames < MaxFrames
    /\ numFrames' = numFrames + 1
    /\ IF ~HandlerMicOn(p)
       THEN UNCHANGED <<volumeLevel, sent, thenQ>>
       ELSE /\ volumeLevel' = Level(f)
            /\ LET j == sessionPromiseRef
                   e == SendReq(numFrames + 1, f, isMicOn)
               IN IF j = Null THEN UNCHANGED <<sent, thenQ>>
                  ELSE IF resolved[j]
                  THEN /\ sent' = Append(sent,
                                     SendRecord(e, j, session[j], FALSE))
                       /\ thenQ' = thenQ
                  ELSE /\ thenQ' = [thenQ EXCEPT ![j] = Append(@, e)]
                       /\ sent' = sent
    /\ UNCHANGED <<activeCall, isMicOn, connectionStatus, refVars, numCalls,
                   startPc, micClosure, ctxState, currentTime, streamState,
                   session, resolved, procState, srcState, procCtx,
                   srcStream, schedLog>>

\* The clock of the running audio context advances.
Tick ==
    /\ audioContextRef # Null
    /\ lastOp' = Op("Tick", Null, 0, "")
    /\ UNCHANGED nonCallVars
    /\ currentTime < MaxTime
    /\ currentTime' = currentTime + 1
    /\ UNCHANGED <<reactVars, refVars, numCalls, startPc, micClosure,
                   ctxState, streamState, session, resolved, thenQ,
                   procState, srcState, procCtx, srcStream, sent, schedLog,
                   numFrames>>

\* ------------------------------------------------------- the codec, alone
\* One input of floatTo16BitPCM, or one of arrayBufferToBase64.
InitCodec ==
    /\ InitCall
    /\ \/ /\ codecPc = "pcmInput"
          /\ pcmInput \in PcmInputs
          /\ b64Buffer = <<>>
       \/ /\ codecPc = "b64Input"
          /\ b64Buffer \in Buffers
          /\ pcmInput = <<>>
    /\ pcmOutput = <<>> /\ channelData = <<>>
    /\ b64Text = <<>> /\ b64Bytes = <<>>
    /\ StorageEmpty /\ AppIdle /\ ChatIdle

\* const pcm16 = floatTo16BitPCM(inputData)
EncodePcm ==
    /\ codecPc = "pcmInput"
    /\ codecPc' = "pcmEncoded"
    /\ pcmOutput' = floatTo16BitPCM(pcmInput)
    /\ UNCHANGED <<callVars, storageVars, appVars, chatVars, pcmInput,
                   channelData, b64Buffer, b64Text, b64Bytes>>

\* The encoded frame goes over the wire as base64 and is read back the way
\* playAudioChunk reads a chunk.
DecodePcm ==
    /\ codecPc = "pcmEncoded"
    /\ codecPc' = "pcmDecoded"
    /\ channelData' = PlayedSamples(base64ToUint8Array(
                           arrayBufferToBase64(Int16Bytes(pcmOutput))))
    /\ UNCHANGED <<callVars, storageVars, appVars, chatVars, pcmInput,
                   pcmOutput, b64Buffer, b64Text, b64Bytes>>

EncodeBase64 ==
    /\ codecPc = "b64Input"
    /\ codecPc' = "b64Encoded"
    /\ b64Text' = arrayBufferToBase64(b64Buffer)
    /\ UNCHANGED <<callVars, storageVars, appVars, chatVars, pcmInput,
                   pcmOutput, channelData, b64Buffer, b64Bytes>>

DecodeBase64 ==
    /\ codecPc = "b64Encoded"
    /\ codecPc' = "b64Decoded"
    /\ b64Bytes' = base64ToUint8Array(b64Text)
    /\ UNCHANGED <<callVars, storageVars, appVars, chatVars, pcmInput,
                   pcmOutput, channelData, b64Buffer, b64Text>>

NextCodec ==
    \/ EncodePcm
    \/ DecodePcm
    \/ EncodeBase64
    \/ DecodeBase64

SpecCodec == InitCodec /\ [][NextCodec]_vars

\* ------------------------------------------------------- StorageService
\* The word strings looked up: one word in two spellings, and two others.
Words == {"apple", "Apple", "bat", "cat"}
\* userCustomSentence: none, or one the user wrote.
Sentences == {"", "mine"}
Ids == 1..MaxSaves

\* A comparison that takes the strings as they are.
toLowerCaseNot(w) == w
\* String.prototype.toLowerCase on the words of the model.
toLowerCase(w) == IF w = "Apple" THEN "apple" ELSE w

\* words.some(w => w.word.toLowerCase() === word.word.toLowerCase())
SomeSameWord(words, word) ==
    \E i \in 1..Len(words) :
        toLowerCase(words[i].word) = toLowerCase(word.word)

\* A saveWord that adds the new entry at the end (push).
saveWordPush(words, word, uuid) ==
    IF ~SomeSameWord(words, word)
    THEN [list |-> Append(words, [word EXCEPT !.id = uuid]),
          ret |-> TRUE, wrote |-> TRUE]
    ELSE [list |-> words, ret |-> FALSE, wrote |-> FALSE]

\* saveWord on the stored list words, uuid being what randomUUID returns:
\* the list stored afterwards, the value returned, and whether setItem ran.
\* (dateAdded, which nothing reads back, is left out.)
saveWord(words, word, uuid) ==
    IF ~SomeSameWord(words, word)
    THEN [list |-> <<[word EXCEPT !.id = uuid]>> \o words,
          ret |-> TRUE, wrote |-> TRUE]
    ELSE [list |-> words, ret |-> FALSE, wrote |-> FALSE]

\* words.filter(keep)
RECURSIVE FilterIdNot(_, _)
FilterIdNot(words, wordId) ==
    IF words = <<>> THEN <<>>
    ELSE IF Head(words).id # wordId
         THEN <<Head(words)>> \o FilterIdNot(Tail(words), wordId)
         ELSE FilterIdNot(Tail(words), wordId)

\* A removeWord with the test the wrong way round.
removeWordKeepsMatch(words, wordId) ==
    [list |-> SelectSeq(words, LAMBDA w : w.id = wordId),
     ret |-> FALSE, wrote |-> TRUE]

removeWord(words, wordId) ==
    [list |-> FilterIdNot(words, wordId), ret |-> FALSE, wrote |-> TRUE]

\* words.findIndex(w => w.id === id): the first such index, or -1.
FindIndex(words, id) ==
    IF \E i \in 1..Len(words) : words[i].id = id
    THEN CHOOSE i \in 1..Len(words) :
             /\ words[i].id = id
             /\ \A j \in 1..(i - 1) : words[j].id # id
    ELSE -1

\* An updateWord that writes the list back whether or not it found the word.
updateWordAlwaysWrites(words, updatedWord) ==
    LET index == FindIndex(words, updatedWord.id)
    IN [list |-> IF index # -1 THEN [words EXCEPT ![index] = updatedWord]
                 ELSE words,
        ret |-> FALSE, wrote |-> TRUE]

updateWord(words, updatedWord) ==
    LET index == FindIndex(words, updatedWord.id)
    IN IF index # -1
       THEN [list |-> [words EXCEPT ![index] = updatedWord],
             ret |-> FALSE, wrote |-> TRUE]
       ELSE [list |-> words, ret |-> FALSE, wrote |-> FALSE]

\* The StorageService call op(arg), with result r, is made.
StorageCall(op, arg, r) ==
    /\ store' = r.list
    /\ storageOp' = [op |-> op, arg |-> arg, ret |-> r.ret,
                     wrote |-> r.wrote]
    /\ UNCHANGED <<callVars, codecVars, appState, appPlatform, chatVars>>

\* saveToMyList(word) of App: a word that was looked up (it has no id yet).
SaveToMyList(w, c) ==
    LET word == [id |-> Null, word |-> w, userCustomSentence |-> c]
        r == saveWord(store, word, nextId + 1)
    IN /\ r.ret => nextId < MaxSaves
       /\ nextId' = IF r.ret THEN nextId + 1 ELSE nextId
       /\ StorageCall("saveWord", word, r)
       /\ myList' = IF r.ret THEN r.list ELSE myList

\* removeFromMyList(word) of App, for a word that has an id.
RemoveFromMyList(wordId) ==
    /\ nextId' = nextId
    /\ StorageCall("removeWord", [id |-> wordId], removeWord(store, wordId))
    /\ myList' = store'

\* updateInMyList of App as handleSaveCustom calls it: the card's stored
\* word with a new userCustomSentence.
UpdateInMyList(i, c) ==
    /\ i \in 1..Len(store)
    /\ nextId' = nextId
    /\ LET updatedWord == [store[i] EXCEPT !.userCustomSentence = c]
       IN StorageCall("updateWord", updatedWord,
                      updateWord(store, updatedWord))
    /\ myList' = store'

\* updateWord called with any word.
UpdateAnyWord(u) ==
    /\ nextId' = nextId
    /\ StorageCall("updateWord", u, updateWord(store, u))
    /\ myList' = store'

\* The word list as the application uses it.
NextStorage ==
    \/ \E w \in Words, c \in Sentences : SaveToMyList(w, c)
    \/ \E wordId \in Ids : RemoveFromMyList(wordId)
    \/ \E i \in 1..MaxSaves, c \in Sentences : UpdateInMyList(i, c)

SpecStorage == Init /\ [][NextStorage]_vars

\* The same, with updateWord given any id, word and sentence (and words
\* saved without a sentence of the user's).
NextStorageApi ==
    \/ \E w \in Words : SaveToMyList(w, "")
    \/ \E wordId \in Ids : RemoveFromMyList(wordId)
    \/ \E u \in [id : Ids, word : {"Apple", "bat"},
                   userCustomSentence : Sentences] : UpdateAnyWord(u)

SpecStorageApi == Init /\ [][NextStorageApi]_vars

\* -------------------------------------------------------------------- App
\* What is typed or dictated into the search box.
Queries == {"", " ", "a", "ab"}
\* The words a suggestion response lists, best first.
SuggestionWords == <<"abc", "abd", "abe", "abf", "abg", "abh", "abi">>
\* The words of a saved list, no two the same whatever the case.
Vocabulary == <<"ant", "bee", "cow", "doe", "eel", "fox", "gnu", "hen",
                "jay", "koi", "owl", "pig", "ram">>

\* query.trim().length
TrimLength(q) ==
    CASE q \in {"", " "} -> 0
      [] q = "a" -> 1
      [] q = "ab" -> 2
      [] OTHER -> 3

\* A slice that keeps the whole list.
sliceAll(list, end) == list
\* list.slice(0, end)
slice(list, end) == SubSeq(list, 1, Min(end, Len(list)))

\* [...list].sort(() => 0.5 - Math.random()): some permutation of the list.
\* The permutations tried are rotations and their mirror images.
Rotations == {0, 1}
Shuffled(list, r, mirror) ==
    LET n == Len(list)
        rotated == [i \in 1..n |-> list[((i - 1 + r) % n) + 1]]
    IN IF mirror THEN [i \in 1..n |-> rotated[n + 1 - i]] ELSE rotated

\* list.map(w => w.word)
WordsOf(list) == [i \in 1..Len(list) |-> list[i].word]

\* A request to the Gemini or Datamuse service, as issued.
Request(kind, query, date, words) ==
    [kind |-> kind, query |-> query, date |-> date, words |-> words]
AppOp(name, n) == [op |-> name, req |-> n]

requestVars == <<requests, pending>>
suggestVars == <<suggestions, showSuggestions>>
dailyVars == <<dailyTask, dailyStored>>
notApp == <<callVars, codecVars, storageVars, chatVars>>

\* await <service call>: the request leaves and the handler is suspended.
Issue(request) ==
    /\ Len(requests) < MaxRequests
    /\ requests' = Append(requests, request)
    /\ pending' = pending \cup {Len(requests) + 1}

\* The answer to request n of the given kind arrives.
Arrives(n, kind) ==
    /\ n \in pending
    /\ requests[n].kind = kind
    /\ requests' = requests
    /\ pending' = pending \ {n}

\* setLookupQuery(q), by the input's onChange or by the voice transcript;
\* the effect on [lookupQuery] clears the timer and sets a new one.
TypeQuery(q) ==
    /\ q # lookupQuery
    /\ lookupQuery' = q
    /\ debounce' = q
    /\ appOp' = AppOp("setLookupQuery", 0)
    /\ UNCHANGED <<loading, error, lookupResult, suggestVars, dailyVars,
                   myList, newsArticle, today, requestVars, notApp>>

\* The timer fires: fetchSuggestions of the render that set it.
FetchSuggestions ==
    /\ debounce # NoTimer
    /\ debounce' = NoTimer
    /\ IF TrimLength(debounce) > 1
       THEN /\ Issue(Request("suggest", debounce, 0, <<>>))
            /\ appOp' = AppOp("fetchSuggestions", Len(requests) + 1)
            /\ UNCHANGED suggestVars
       ELSE /\ suggestions' = <<>>
            /\ showSuggestions' = FALSE
            /\ appOp' = AppOp("fetchSuggestions", 0)
            /\ UNCHANGED requestVars
    /\ UNCHANGED <<loading, error, lookupQuery, lookupResult, dailyVars,
                   myList, newsArticle, today, notApp>>

\* fetchSuggestions resumes: the response lists len words, or is not ok
\* (or fetch threw).
SuggestionsArrive(n, ok, len) ==
    /\ Arrives(n, "suggest")
    /\ IF ok
       THEN /\ suggestions' = slice(SubSeq(SuggestionWords, 1, len),
                                    SuggestionLimit)
            /\ showSuggestions' = TRUE
       ELSE UNCHANGED suggestVars
    /\ appOp' = AppOp("suggestionsArrive", n)
    /\ UNCHANGED <<loading, error, lookupQuery, lookupResult, dailyVars,
                   myList, newsArticle, today, debounce, notApp>>

\* handleLookup(queryOverride) up to its await; "" is no override.
HandleLookup(queryOverride, name) ==
    LET query == IF queryOverride # "" THEN queryOverride ELSE lookupQuery
    IN IF TrimLength(query) = 0
       THEN /\ appOp' = AppOp(name, 0)
            /\ UNCHANGED <<showSuggestions, loading, error, requestVars>>
       ELSE /\ showSuggestions' = FALSE
            /\ loading' = TRUE
            /\ error' = Nothing
            /\ Issue(Request("lookup", query, 0, <<>>))
            /\ appOp' = AppOp(name, Len(requests) + 1)

\* Enter in the search box, or the search button.
PressLookup ==
    /\ HandleLookup("", "handleLookup")
    /\ UNCHANGED <<lookupQuery, lookupResult, suggestions, dailyVars, myList,
                   newsArticle, today, debounce, notApp>>

\* handleSuggestionClick on the i-th entry of the dropdown.
HandleSuggestionClick(i) ==
    /\ showSuggestions
    /\ i \in 1..Len(suggestions)
    /\ lookupQuery' = suggestions[i]
    /\ debounce' = IF suggestions[i] = lookupQuery THEN debounce
                   ELSE suggestions[i]
    /\ HandleLookup(suggestions[i], "handleSuggestionClick")
    /\ UNCHANGED <<lookupResult, suggestions, dailyVars, myList,
                   newsArticle, today, notApp>>

\* handleLookup resumes after its await.
LookupArrives(n, ok) ==
    /\ Arrives(n, "lookup")
    /\ IF ok
       THEN lookupResult' = requests[n].query /\ error' = error
       ELSE error' = "Failed to look up word." /\ lookupResult' = lookupResult
    /\ loading' = FALSE
    /\ appOp' = AppOp("lookupArrives", n)
    /\ UNCHANGED <<lookupQuery, suggestVars, dailyVars, myList, newsArticle,
                   today, debounce, notApp>>

\* {showSuggestions && suggestions.length > 0 && (<dropdown>)}
DropdownShown == showSuggestions /\ Len(suggestions) > 0

\* onFocus of the search box.
OnFocus ==
    /\ Len(suggestions) > 0
    /\ showSuggestions' = TRUE
    /\ appOp' = AppOp("onFocus", 0)
    /\ UNCHANGED <<loading, error, lookupQuery, lookupResult, suggestions,
                   dailyVars, myList, newsArticle, today, debounce,
                   requestVars, notApp>>

\* handleGenerateDaily up to its await.
HandleGenerateDaily ==
    /\ IF dailyTask # NoTask /\ dailyTask.date = today
       THEN /\ appOp' = AppOp("handleGenerateDaily", 0)
            /\ UNCHANGED <<loading, error, requestVars>>
       ELSE /\ loading' = TRUE
            /\ error' = Nothing
            /\ Issue(Request("daily", "", today, <<>>))
            /\ appOp' = AppOp("handleGenerateDaily", Len(requests) + 1)
    /\ UNCHANGED <<lookupQuery, lookupResult, suggestVars, dailyVars, myList,
                   newsArticle, today, debounce, notApp>>

\* The button that calls it is disabled while loading.
ClickGenerateDaily ==
    /\ ~loading
    /\ HandleGenerateDaily

\* handleGenerateDaily resumes after its await.
DailyArrives(n, ok) ==
    /\ Arrives(n, "daily")
    /\ IF ok
       THEN /\ dailyStored' = [date |-> requests[n].date, by |-> n]
            /\ dailyTask' = [date |-> requests[n].date, by |-> n]
            /\ error' = error
       ELSE /\ error' = "Failed to generate daily words."
            /\ UNCHANGED dailyVars
    /\ loading' = FALSE
    /\ appOp' = AppOp("dailyArrives", n)
    /\ UNCHANGED <<lookupQuery, lookupResult, suggestVars, myList,
                   newsArticle, today, debounce, notApp>>

\* Midnight (UTC) passes.
NextDay ==
    /\ today < MaxDays
    /\ today' = today + 1
    /\ appOp' = AppOp("nextDay", 0)
    /\ UNCHANGED <<loading, error, lookupQuery, lookupResult, suggestVars,
                   dailyVars, myList, newsArticle, debounce, requestVars,
                   notApp>>

\* handleGenerateNews up to its await; the sort leaves the list rotated by
\* r, mirrored or not.
HandleGenerateNews(r, mirror) ==
    /\ r < Max(1, Len(myList))
    /\ IF Len(myList) < MinNewsWords
       THEN /\ r = 0 /\ ~mirror
            /\ error' = "Please add at least 5 words."
            /\ appOp' = AppOp("handleGenerateNews", 0)
            /\ UNCHANGED <<loading, requestVars>>
       ELSE /\ loading' = TRUE
            /\ error' = Nothing
            /\ Issue(Request("news", "", 0,
                   WordsOf(slice(Shuffled(myList, r, mirror), MaxNewsWords))))
            /\ appOp' = AppOp("handleGenerateNews", Len(requests) + 1)
    /\ UNCHANGED <<lookupQuery, lookupResult, suggestVars, dailyVars, myList,
                   newsArticle, today, debounce, notApp>>

\* handleGenerateNews resumes after its await.
NewsArrives(n, ok) ==
    /\ Arrives(n, "news")
    /\ IF ok
       THEN newsArticle' = n /\ error' = error
       ELSE /\ error' = "Failed to generate news article."
            /\ newsArticle' = newsArticle
    /\ loading' = FALSE
    /\ appOp' = AppOp("newsArrives", n)
    /\ UNCHANGED <<lookupQuery, lookupResult, suggestVars, dailyVars, myList,
                   today, debounce, notApp>>

\* The lookup view and the daily view, as the user and the services drive
\* them.
NextApp ==
    \/ \E q \in Queries : TypeQuery(q)
    \/ FetchSuggestions
    \/ \E n \in 1..MaxRequests, ok \in BOOLEAN, len \in {0, 1, MaxSuggested} :
           SuggestionsArrive(n, ok, len)
    \/ PressLookup
    \/ \E i \in 1..SuggestionLimit : HandleSuggestionClick(i)
    \/ \E n \in 1..MaxRequests, ok \in BOOLEAN : LookupArrives(n, ok)
    \/ OnFocus
    \/ ClickGenerateDaily
    \/ \E n \in 1..MaxRequests, ok \in BOOLEAN : DailyArrives(n, ok)
    \/ NextDay

SpecApp == Init /\ [][NextApp]_vars

\* A saved list of n words, the newest first.
SavedList(n) ==
    [i \in 1..n |-> [id |-> n + 1 - i, word |-> Vocabulary[n + 1 - i],
                     userCustomSentence |-> ""]]

\* App showing a list of up to MaxListLen saved words.
InitNews ==
    /\ InitCall /\ CodecOff /\ ChatIdle
    /\ \E n \in 0..MaxListLen :
           /\ store = SavedList(n)
           /\ myList = SavedList(n)
           /\ nextId = n
    /\ storageOp = [op |-> "none", arg |-> [id |-> Null], ret |-> FALSE,
                    wrote |-> FALSE]
    /\ loading = FALSE /\ error = Nothing
    /\ lookupQuery = "" /\ lookupResult = Nothing
    /\ suggestions = <<>> /\ showSuggestions = FALSE
    /\ dailyTask = NoTask /\ dailyStored = NoTask
    /\ newsArticle = 0
    /\ today = 1 /\ debounce = NoTimer
    /\ NoRequests

\* handleGenerateNews called on any list, and its requests answered.
NextNews ==
    \/ \E r \in Rotations, mirror \in BOOLEAN : HandleGenerateNews(r, mirror)
    \/ \E n \in 1..MaxRequests, ok \in BOOLEAN : NewsArrives(n, ok)

SpecNews == InitNews /\ [][NextNews]_vars

\* -------------------------------------------------------------- ChatTutor
\* What is typed into the text box, and what the recognizer hears.
ChatTexts == {"", " ", "hi"}
Transcripts == {"", "hello"}
\* !text.trim()
Blank(text) == text \in {"", " "}

notChat == <<callVars, codecVars, storageVars, appVars>>
ChatOp(name, accepted) == [op |-> name, accepted |-> accepted]

\* handleSend(textOverride) up to its await, as the closure of a render in
\* which isLoading and input had the values seen; "" is no override.
HandleSend(textOverride, isLoadingSeen, inputSeen, name) ==
    LET textToSend == IF textOverride # "" THEN textOverride ELSE inputSeen
    IN IF Blank(textToSend) \/ isLoadingSeen
       THEN /\ chatOp' = ChatOp(name, FALSE)
            /\ UNCHANGED <<messages, chatInput, isLoading, sendLog,
                           chatPending>>
       ELSE /\ Len(sendLog) < MaxSends
            /\ messages' = Append(messages,
                                  [role |-> "user", text |-> textToSend])
            /\ chatInput' = ""
            /\ isLoading' = TRUE
            /\ sendLog' = Append(sendLog, textToSend)
            /\ chatPending' = chatPending \cup {Len(sendLog) + 1}
            /\ chatOp' = ChatOp(name, TRUE)

\* onChange of the text box.
TypeMessage(text) ==
    /\ text # chatInput
    /\ chatInput' = text
    /\ chatOp' = ChatOp("setInput", FALSE)
    /\ UNCHANGED <<messages, isLoading, isListening, recognition, sendLog,
                   chatPending, notChat>>

\* Enter in the text box, or the send button: handleSend() of the current
\* render.
PressSend ==
    /\ HandleSend("", isLoading, chatInput, "handleSend")
    /\ UNCHANGED <<isListening, recognition, notChat>>

\* handleMicClick while not listening: a recognition is started whose
\* onresult is a closure of this render; onstart sets isListening.
HandleMicClick ==
    /\ ~isListening
    /\ recognition' = [state |-> "listening", isLoading |-> isLoading,
                       input |-> chatInput]
    /\ isListening' = TRUE
    /\ chatOp' = ChatOp("handleMicClick", FALSE)
    /\ UNCHANGED <<messages, chatInput, isLoading, sendLog, chatPending,
                   notChat>>

\* recognition.onresult: handleSend(transcript) of the render of the click.
OnResult(transcript) ==
    /\ recognition.state = "listening"
    /\ HandleSend(transcript, recognition.isLoading, recognition.input,
                  "onresult")
    /\ recognition' = [recognition EXCEPT !.state = "heard"]
    /\ UNCHANGED <<isListening, notChat>>

\* recognition.onend (or onerror).
OnEnd ==
    /\ recognition.state # "off"
    /\ recognition' = [recognition EXCEPT !.state = "off"]
    /\ isListening' = FALSE
    /\ chatOp' = ChatOp("onend", FALSE)
    /\ UNCHANGED <<messages, chatInput, isLoading, sendLog, chatPending,
                   notChat>>

\* What the tutor says for an answer: its text, the fallback for an answer
\* without text, the apology when sendMessage throws.
ReplyText(outcome) ==
    CASE outcome = "text" -> "reply"
      [] outcome = "empty" -> "I'm sorry, I couldn't generate a response."
      [] OTHER -> "Sorry, I encountered an error. Please try again."

\* handleSend resumes after await chat.sendMessage.
ReplyArrives(n, outcome) ==
    /\ n \in chatPending
    /\ chatPending' = chatPending \ {n}
    /\ messages' = Append(messages,
                          [role |-> "model", text |-> ReplyText(outcome)])
    /\ isLoading' = FALSE
    /\ chatOp' = ChatOp("replyArrives", FALSE)
    /\ UNCHANGED <<chatInput, isListening, recognition, sendLog, notChat>>

NextChat ==
    \/ \E text \in ChatTexts : TypeMessage(text)
    \/ PressSend
    \/ HandleMicClick
    \/ \E transcript \in Transcripts : OnResult(transcript)
    \/ OnEnd
    \/ \E n \in 1..MaxSends, outcome \in {"text", "empty", "throws"} :
           ReplyArrives(n, outcome)

SpecChat == Init /\ [][NextChat]_vars

\* What the user and the platform do to a call, whatever the audio does.
Lifecycle ==
    \/ \E k \in Calls : MicGranted(k)
    \/ \E k \in Calls : MicDenied(k)
    \/ \E k \in Calls : OnOpen(k)
    \/ \E k \in Calls : OnError(k)
    \/ \E k \in Calls : OnClose(k)
    \/ UserEndCall

Capture ==
    \/ ToggleMic
    \/ \E p \in Calls, f \in Frames : OnAudioProcess(p, f)

Playback ==
    \/ \E k \in Calls, n \in ChunkBytes : OnMessage(k, n)
    \/ Tick

\* The whole component.
Next ==
    \/ \E profile \in Profiles : StartCall(profile)
    \/ Lifecycle
    \/ Capture
    \/ Playback

Spec == Init /\ [][Next]_vars

\* The capture callback and the playback scheduler share no state: the
\* first writes volumeLevel, sent, thenQ and numFrames, the second
\* schedLog, nextStartTimeRef and currentTime, and neither reads what the
\* other writes.  Each is checked with the call lifecycle, without the other.
NextCapture ==
    \/ \E profile \in Profiles : StartCall(profile)
    \/ Lifecycle
    \/ Capture

SpecCapture == Init /\ [][NextCapture]_vars

NextPlayback ==
    \/ \E profile \in Profiles :
           numCalls < MaxPlaybackCalls /\ StartCall(profile)
    \/ Lifecycle
    \/ Playback

SpecPlayback == Init /\ [][NextPlayback]_vars

\* The call lifecycle with a platform whose stop() and disconnect() may
\* throw.
NextTeardown ==
    \/ \E profile \in Profiles : StartCall(profile)
    \/ Lifecycle
    \/ \E t \in ThrowingSteps : UserEndCallThrows(t)

SpecTeardown == Init /\ [][NextTeardown]_vars

\* The order of the sends depends neither on who is called nor on what a
\* frame holds: one profile and one frame content, every lifecycle event.
NextOrder ==
    \/ StartCall("priya")
    \/ Lifecycle
    \/ \E p \in Calls : OnAudioProcess(p, <<3, -4>>)

SpecOrder == Init /\ [][NextOrder]_vars

\* Calls that are started, connect, play chunks of one size and are hung
\* up, with the clock running: what moves the playback cursor.  (A remote
\* close runs the same endCall as the hang-up button.)
NextCursor ==
    \/ StartCall("priya")
    \/ \E k \in Calls : MicGranted(k)
    \/ \E k \in Calls : OnOpen(k)
    \/ UserEndCall
    \/ \E k \in Calls : OnMessage(k, 2)
    \/ Tick

SpecCursor == Init /\ [][NextCursor]_vars

\* ------------------------------------------------------------------ claims
AllRefsNull ==
    /\ audioContextRef = Null /\ inputSourceRef = Null
    /\ processorRef = Null /\ streamRef = Null /\ sessionPromiseRef = Null

\* Session k is held: open, or connecting with no close waiting for it.
SessionHeld(k) ==
    \/ session[k] = "open"
    \/ /\ session[k] = "pending"
       /\ \A i \in 1..Len(thenQ[k]) : thenQ[k][i].kind # "close"

\* C1: when endCall runs while the call is connecting the controller is in
\* NoCall afterwards, and when the session of a call that was ended before
\* it opened (it is still pending, and no call is active) reports "open",
\* connectionStatus stays 'idle' and no capture node is made.
C1_OpenAfterEndCallIgnored ==
    [][/\ (UserEndCall /\ connectionStatus = "connecting")
            => (activeCall' = NoCall /\ connectionStatus' = "idle")
       /\ \A k \in Calls :
            (OnOpen(k) /\ activeCall = NoCall /\ connectionStatus = "idle")
                => /\ connectionStatus' = "idle"
                   /\ procState' = procState
                   /\ srcState' = srcState]_vars

\* C2: whenever no call is active, the three handles are null and no
\* microphone stream is live, no audio context is running and no session
\* is held.
C2_NothingHeldWithoutCall ==
    activeCall = NoCall =>
        /\ streamRef = Null /\ audioContextRef = Null
        /\ sessionPromiseRef = Null
        /\ \A k \in Calls :
            /\ streamState[k] # "live"
            /\ ctxState[k] # "running"
            /\ ~SessionHeld(k)

\* C3: when the session of the current call reports an error, then after
\* the callback the session is closed or closing, no stream is live, no
\* capture node is connected, no context is running, every handle is null
\* and the status shown is 'error'.
C3_ErrorTearsDown ==
    [][\A k \in Calls :
          (OnError(k) /\ sessionPromiseRef = k) =>
              /\ connectionStatus' = "error"
              /\ AllRefsNull'
              /\ session'[k] \in {"closing", "closed"}
              /\ \A j \in Calls :
                    /\ streamState'[j] # "live"
                    /\ procState'[j] # "connected"
                    /\ srcState'[j] # "connected"
                    /\ ctxState'[j] # "running"]_vars

SameCall(i, j) == schedLog[i].ctx = schedLog[j].ctx
EndOf(i) == schedLog[i].start + schedLog[i].dur

\* C4: every scheduled chunk starts no earlier than the clock read when it
\* was scheduled, and no earlier than the end of the chunk scheduled before
\* it in the same call.
C4_NoOverlapNoPast ==
    \A i \in 1..Len(schedLog) :
        /\ schedLog[i].start >= schedLog[i].now
        /\ (i > 1 /\ SameCall(i - 1, i)) => schedLog[i].start >= EndOf(i - 1)

\* A chunk that arrived after the chunk before it had finished.
C4_Witness ==
    /\ Len(schedLog) >= 2
    /\ SameCall(1, 2)
    /\ schedLog[2].now > EndOf(1)
    /\ schedLog[2].start = schedLog[2].now

\* C5: a chunk starts at max(clock, cursor) and leaves the cursor at its
\* end, so a chunk scheduled no later than the end of the chunk before it
\* (same call) starts exactly at that end.
C5_BackToBack ==
    \A i \in 1..Len(schedLog) :
        /\ schedLog[i].start = Max(schedLog[i].now, schedLog[i].cursor)
        /\ (i = Len(schedLog) /\ schedLog[i].ctx = audioContextRef)
               => nextStartTimeRef = EndOf(i)
        /\ (i > 1 /\ SameCall(i - 1, i))
               => /\ schedLog[i].cursor = EndOf(i - 1)
                  /\ schedLog[i].now <= EndOf(i - 1)
                         => schedLog[i].start = EndOf(i - 1)

\* A chunk that arrived while the chunk before it was still playing.
C5_Witness ==
    /\ Len(schedLog) >= 2
    /\ SameCall(1, 2)
    /\ schedLog[2].now > schedLog[1].start
    /\ schedLog[2].now < EndOf(1)
    /\ schedLog[2].start = EndOf(1)

\* The current call is connected.
Connected ==
    /\ activeCall # NoCall
    /\ sessionPromiseRef # Null
    /\ session[sessionPromiseRef] = "open"

\* C6: a frame delivered while the user has the microphone muted hands
\* nothing to the session, and a frame delivered to a connected call while
\* the microphone is unmuted is transmitted, with the same capture nodes.
C6_MuteAtNextFrame ==
    [][\A p \in Calls, f \in Frames :
          OnAudioProcess(p, f) =>
              /\ ~isMicOn => (sent' = sent /\ thenQ' = thenQ)
              /\ (isMicOn /\ Connected) => Len(sent') = Len(sent) + 1]_vars

\* C7: every frame transmitted, or waiting to be, was captured while the
\* mute button showed the microphone on.
C7_NoSendWhileMuted ==
    /\ \A i \in 1..Len(sent) : sent[i].uiMic
    /\ \A k \in Calls : \A i \in 1..Len(thenQ[k]) :
           thenQ[k][i].kind = "send" => thenQ[k][i].uiMic

\* C8: every frame a running capture pipeline delivers publishes the
\* root-mean-square of that frame as the signal level.
C8_LevelOnEveryFrame ==
    [][\A p \in Calls, f \in Frames :
          OnAudioProcess(p, f) => volumeLevel' = Rms(f)]_vars

\* C9: at no time are two microphone streams live, two audio contexts
\* running or two sessions held.
C9_OneCallSession ==
    /\ Cardinality({k \in Calls : streamState[k] = "live"}) <= 1
    /\ Cardinality({k \in Calls : ctxState[k] = "running"}) <= 1
    /\ Cardinality({k \in Calls : SessionHeld(k)}) <= 1

C11_SendOnlyWhileConnected ==
    /\ \A i \in 1..Len(sent) :
           sent[i].sessState = "open" /\ ~sent[i].deferred
    /\ \A k \in Calls : \A i \in 1..Len(thenQ[k]) :
           thenQ[k][i].kind # "send"

\* A close has been asked of session k by endCall.
CloseRequested(k) ==
    \/ session[k] = "closing"
    \/ \E i \in 1..Len(thenQ[k]) : thenQ[k][i].kind = "close"

\* C12: when the socket of a session closes without endCall having asked
\* for it, then after the callback every handle is null, what the handles
\* pointed at is released (stream stopped, nodes disconnected, context
\* closed, session closed or asked to close), no call is active and the
\* status is 'idle': the state endCall leaves.
C12_RemoteCloseTearsDown ==
    [][\A k \in Calls :
          (OnClose(k) /\ ~CloseRequested(k)) =>
              /\ AllRefsNull'
              /\ activeCall' = NoCall
              /\ connectionStatus' = "idle"
              /\ session'[k] = "closed"
              /\ streamRef # Null => streamState'[streamRef] = "stopped"
              /\ processorRef # Null
                     => procState'[processorRef] = "disconnected"
              /\ inputSourceRef # Null
                     => srcState'[inputSourceRef] = "disconnected"
              /\ audioContextRef # Null
                     => ctxState'[audioContextRef] = "closed"
              /\ sessionPromiseRef # Null =>
                     LET j == sessionPromiseRef IN
                     /\ session'[j] # "open"
                     /\ session'[j] = "pending" =>
                            \E i \in 1..Len(thenQ'[j]) :
                                thenQ'[j][i].kind = "close"]_vars

\* The socket of a connected call, capture running, has just closed on its
\* own and the call is gone.
C12_Witness ==
    /\ lastOp.op = "OnClose" /\ lastOp.was = "open"
    /\ session[lastOp.call] = "closed"
    /\ streamState[lastOp.call] = "stopped"
    /\ procState[lastOp.call] = "disconnected"
    /\ srcState[lastOp.call] = "disconnected"
    /\ ctxState[lastOp.call] = "closed"
    /\ AllRefsNull /\ activeCall = NoCall /\ connectionStatus = "idle"

\* C13: when one statement of endCall throws, every other statement of
\* endCall has still run afterwards: the other handles are null and what
\* they pointed at is released, no call is active and the status is 'idle'.
C13_TeardownStepsIndependent ==
    [][\A t \in ThrowingSteps :
          UserEndCallThrows(t) =>
              /\ activeCall' = NoCall
              /\ connectionStatus' = "idle"
              /\ sessionPromiseRef' = Null
              /\ audioContextRef' = Null
              /\ audioContextRef # Null
                     => ctxState'[audioContextRef] = "closed"
              /\ t # 2 => /\ streamRef' = Null
                          /\ streamRef # Null
                                 => streamState'[streamRef] = "stopped"
              /\ t # 3 => /\ processorRef' = Null
                          /\ processorRef # Null
                                 => procState'[processorRef] = "disconnected"
              /\ t # 4 => /\ inputSourceRef' = Null
                          /\ inputSourceRef # Null
                                 => srcState'[inputSourceRef]
                                        = "disconnected"]_vars

\* Call k is the call on screen.
CurrentCall(k) == activeCall # NoCall /\ numCalls = k

\* C14: a call whose microphone request was denied never gets a stream, a
\* session or capture nodes of its own, and for as long as it is the call
\* on screen no capture pipeline is held and the status is not 'connected'
\* (it is 'error' from the denial on).
C14_MicDeniedStaysFailed ==
    \A k \in Calls :
        startPc[k] = "failed" =>
            /\ session[k] = "none"
            /\ streamState[k] = "none"
            /\ procState[k] = "none" /\ srcState[k] = "none"
            /\ CurrentCall(k) =>
                   /\ connectionStatus = "error"
                   /\ processorRef = Null /\ inputSourceRef = Null

C16_OneSendPerFrame ==
    [][\A p \in Calls, f \in Frames :
          (OnAudioProcess(p, f) /\ Connected /\ isMicOn) =>
              /\ Len(sent') = Len(sent) + 1
              /\ SubSeq(sent', 1, Len(sent)) = sent
              /\ sent'[Len(sent')].frame = numFrames'
              /\ sent'[Len(sent')].data = floatTo16BitPCM(f)
              /\ sent'[Len(sent')].rate = 16000]_vars

\* C17: the frames a session is sent arrive in the order they were
\* captured, whether they were sent at once or waited on the session
\* promise.
C17_CaptureOrder ==
    \A i, j \in 1..Len(sent) :
        (i < j /\ sent[i].sess = sent[j].sess)
            => sent[i].frame < sent[j].frame

\* Two frames waited on the promise of one session and were sent, in
\* order, when it resolved.
C17_Witness ==
    /\ Len(sent) >= 2
    /\ sent[1].deferred /\ sent[2].deferred
    /\ sent[1].sess = sent[2].sess
    /\ sent[1].frame < sent[2].frame

Abs(n) == IF n < 0 THEN -n ELSE n
InRange(x) == -SampleScale <= x /\ x <= SampleScale
\* |decoded - x| in units of 1 / (32768 * SampleScale): the decoded sample is
\* channelData[i] / 32768 and the input is pcmInput[i] / SampleScale.
RoundTripError(i) == Abs(channelData[i] * SampleScale - pcmInput[i] * 32768)

\* C18 as stated: decoding the encoding of a sample of [-1, 1] gives a
\* value within one quantization step, 1/32768, of the sample.
C18_RoundTripOneStep ==
    codecPc = "pcmDecoded" =>
        \A i \in 1..Len(pcmInput) :
            InRange(pcmInput[i]) => RoundTripError(i) <= SampleScale

\* C18, amended: decoding the encoding of a sample of [-1, 1] gives a value
\* less than two quantization steps from the sample, never above it in
\* magnitude, and within one step when the sample is not positive.
C18_RoundTripTwoSteps ==
    codecPc = "pcmDecoded" =>
        /\ Len(channelData) = Len(pcmInput)
        /\ \A i \in 1..Len(pcmInput) :
               InRange(pcmInput[i]) =>
                   /\ RoundTripError(i) < 2 * SampleScale
                   /\ Abs(channelData[i]) * SampleScale
                          <= Abs(pcmInput[i]) * 32768
                   /\ pcmInput[i] <= 0 => RoundTripError(i) <= SampleScale

\* A positive sample came back more than one step low, and a negative one
\* within a step.
C18_Witness ==
    /\ codecPc = "pcmDecoded"
    /\ \E i \in 1..Len(pcmInput) :
           /\ InRange(pcmInput[i]) /\ pcmInput[i] > 0
           /\ RoundTripError(i) > SampleScale
    /\ \E i \in 1..Len(pcmInput) :
           /\ InRange(pcmInput[i]) /\ pcmInput[i] < 0
           /\ RoundTripError(i) <= SampleScale

\* C19: every encoded sample is the clamped input scaled by 32768 when
\* negative and by 32767 otherwise, cut toward zero: it keeps the sign of
\* the input, lies in -32768..32767, and inputs at or beyond +1 / -1 give
\* 32767 / -32768.
C19_EncodeClampsAndScales ==
    codecPc = "pcmEncoded" =>
        /\ Len(pcmOutput) = Len(pcmInput)
        /\ \A i \in 1..Len(pcmInput) :
               LET x == pcmInput[i]
                   y == pcmOutput[i]
               IN /\ y \in -32768..32767
                  /\ x >= SampleScale => y = 32767
                  /\ x <= -SampleScale => y = -32768
                  /\ (0 <= x /\ x <= SampleScale) =>
                         /\ y >= 0
                         /\ y * SampleScale <= x * 32767
                         /\ x * 32767 < (y + 1) * SampleScale
                  /\ (-SampleScale <= x /\ x < 0) =>
                         /\ y <= 0
                         /\ y * SampleScale >= x * 32768
                         /\ x * 32768 > (y - 1) * SampleScale

\* A frame with a sample above +1, encoded as 32767, and a negative sample
\* whose scaled value had a fraction to cut.
C19_Witness ==
    /\ codecPc = "pcmEncoded"
    /\ \E i \in 1..Len(pcmInput) :
           pcmInput[i] > SampleScale /\ pcmOutput[i] = 32767
    /\ \E i \in 1..Len(pcmInput) :
           /\ pcmInput[i] < 0 /\ InRange(pcmInput[i])
           /\ (pcmInput[i] * 32768) % SampleScale # 0

\* C20: the bytes base64ToUint8Array makes of arrayBufferToBase64(b) are b.
C20_Base64RoundTrip ==
    codecPc = "b64Decoded" => b64Bytes = b64Buffer

\* A padded string (two bytes) holding a zero byte and the byte 255 came
\* back.
C20_Witness ==
    /\ codecPc = "b64Decoded"
    /\ Len(b64Buffer) = 2
    /\ b64Buffer[1] = 0 /\ b64Buffer[2] = 255
    /\ b64Text[Len(b64Text)] = Pad
    /\ b64Bytes = b64Buffer

\* C21 as stated: no step ever makes nextStartTimeRef smaller.
C21_CursorNeverDecreases ==
    [][nextStartTimeRef' >= nextStartTimeRef]_vars

\* C21, amended: startCall sets nextStartTimeRef to the clock of the audio
\* context it has just made, and no other step makes it smaller.
C21_CursorDecreasesOnlyAtStart ==
    [][IF \E profile \in Profiles : StartCall(profile)
       THEN nextStartTimeRef' = currentTime'
       ELSE nextStartTimeRef' >= nextStartTimeRef]_vars

\* A second call has scheduled a chunk from a cursor startCall had put
\* back to 0, below where the first call had left it.
C21_Witness ==
    /\ Len(schedLog) = 2
    /\ schedLog[1].ctx = 1 /\ schedLog[2].ctx = 2
    /\ schedLog[2].cursor < EndOf(1)
    /\ nextStartTimeRef = EndOf(2)

\* C22: a message without audio data changes nothing: no buffer source is
\* started, and the cursor, the status, the active call, the handles, the
\* sessions and every platform object stay as they are.
C22_NonAudioMessageIgnored ==
    [][\A k \in Calls :
          OnMessage(k, 0) =>
              UNCHANGED <<schedLog, reactVars, refVars, platformVars,
                          sent>>]_vars

\* A connected call that has played a chunk has just been given a message
\* without audio.
C22_Witness ==
    /\ lastOp.op = "OnMessage" /\ lastOp.n = 0
    /\ session[lastOp.call] = "open"
    /\ connectionStatus = "connected"
    /\ audioContextRef = lastOp.call
    /\ Len(schedLog) = 1 /\ nextStartTimeRef = EndOf(1)

\* C23: whenever the status is 'connected' a call is active and the
\* capture nodes the handles name are connected, in a running context, on a
\* live microphone stream.
C23_ConnectedMeansCapturing ==
    connectionStatus = "connected" =>
        /\ activeCall # NoCall
        /\ inputSourceRef # Null /\ processorRef # Null
        /\ srcState[inputSourceRef] = "connected"
        /\ procState[processorRef] = "connected"
        /\ ctxState[procCtx[processorRef]] = "running"
        /\ streamState[srcStream[inputSourceRef]] = "live"

\* Session k belongs to a call that was ended, and a later call is on
\* screen.
StaleFor(k) == k < numCalls /\ activeCall # NoCall

\* C24: a close, open, error or message event of the session of an ended
\* call, arriving while a later call is on screen, leaves that call
\* active, its status, its handles and its resources as they are, and
\* starts no buffer source.
C24_StaleEventsIgnored ==
    [][\A k \in Calls :
          (/\ StaleFor(k)
           /\ \/ OnClose(k) \/ OnOpen(k) \/ OnError(k)
              \/ \E n \in ChunkBytes : OnMessage(k, n))
          => UNCHANGED <<activeCall, connectionStatus, refVars, ctxState,
                         streamState, procState, srcState, schedLog>>]_vars

\* C25: whenever the status is 'error' a call is on screen (so its end
\* button is); endCall pressed in that state leaves no call active, status
\* 'idle' and every handle null; and a startCall that follows an endCall
\* leaves the status 'connecting' with the new profile active.
C25_ErrorAllowsEndAndRestart ==
    [][/\ connectionStatus' = "error" => activeCall' # NoCall
       /\ (UserEndCall /\ connectionStatus = "error") =>
              /\ activeCall' = NoCall
              /\ connectionStatus' = "idle"
              /\ AllRefsNull'
       /\ \A profile \in Profiles :
              (StartCall(profile) /\ lastOp.op = "UserEndCall") =>
                  /\ activeCall' = profile
                  /\ connectionStatus' = "connecting"]_vars

\* C26: the mute flag read by the handler of every connected processor is
\* the one the microphone button shows.
C26_HandlerMuteIsUiMute ==
    \A p \in Calls :
        procState[p] = "connected" => HandlerMicOn(p) = isMicOn

\* What the claims below call the same word: equal once "Apple" is read as
\* "apple".
Folded(w) == IF w \in {"apple", "Apple"} THEN "apple" ELSE w
\* The entries of list whose id is not id, in order.
OthersThan(list, id) == SelectSeq(list, LAMBDA w : w.id # id)

\* C27: after any sequence of saveWord, removeWord and updateWord calls as
\* the application issues them, no two stored entries have the same word
\* ignoring case, and no two have the same id.
C27_NoDuplicateWordOrId ==
    \A i, j \in 1..Len(store) :
        i # j => /\ Folded(store[i].word) # Folded(store[j].word)
                 /\ store[i].id # store[j].id
\* A word was removed and saved again in another spelling, and an entry's
\* sentence was then updated.
C27_Witness ==
    /\ storageOp.op = "updateWord" /\ storageOp.wrote
    /\ Len(store) = 2 /\ nextId = 3
    /\ \E i \in 1..Len(store) : store[i].word = "Apple"

\* C28: saveWord returns true exactly when no stored entry has the word
\* ignoring case, and then puts exactly one new entry, for that word, in
\* front of the others, which stay as they were and in order; when the
\* word is stored it returns false and the list is unchanged.
C28_SaveWordAtFrontOrRefused ==
    [][\A w \in Words, c \in Sentences : SaveToMyList(w, c) =>
          LET stored == \E i \in 1..Len(store) :
                            Folded(store[i].word) = Folded(w)
          IN /\ storageOp'.ret = ~stored
             /\ ~stored => /\ Len(store') = Len(store) + 1
                            /\ store'[1].word = w
                            /\ Tail(store') = store
             /\ stored => store' = store]_vars
\* A word was saved in front of two stored ones.
C28_Witness ==
    /\ storageOp.op = "saveWord" /\ storageOp.ret
    /\ Len(store) = 3

\* C29: removeWord(id) removes every entry with that id and nothing else,
\* the others staying in order; for an id that is not stored the content is
\* unchanged; and saving the removed word again right after returns true.
C29_RemoveWordRemovesOnlyThatId ==
    [][\A wordId \in Ids : RemoveFromMyList(wordId) =>
          /\ store' = OthersThan(store, wordId)
          /\ (\A i \in 1..Len(store) : store[i].id # wordId)
                 => store' = store
          /\ \A i \in 1..Len(store) :
                 store[i].id = wordId =>
                     saveWord(store', store[i], nextId + 1).ret]_vars
\* The middle one of three entries was removed.
C29_Witness ==
    /\ storageOp.op = "removeWord"
    /\ Len(store) = 2
    /\ store[1].id = 3 /\ store[2].id = 1

\* C30: updateWord replaces the entry with the word's id, at its position,
\* the length and the other entries unchanged; when no entry has that id,
\* storage is not written and the list is unchanged.
C30_UpdateWordInPlaceOrNothing ==
    [][(storageOp'.op = "updateWord" /\ UpdateAnyWord(storageOp'.arg)) =>
          LET u == storageOp'.arg
              at == {i \in 1..Len(store) : store[i].id = u.id}
          IN /\ Len(store') = Len(store)
             /\ \A i \in 1..Len(store) :
                    store'[i] = IF i \in at THEN u ELSE store[i]
             /\ at = {} => ~storageOp'.wrote /\ store' = store
             /\ at # {} => storageOp'.wrote]_vars
\* The middle one of three entries was replaced.
C30_Witness ==
    /\ storageOp.op = "updateWord" /\ storageOp.wrote
    /\ Len(store) = 3
    /\ store[2].userCustomSentence = "mine"
    /\ store[1].userCustomSentence = "" /\ store[3].userCustomSentence = ""
\* An updateWord call found no entry with its id.
C30_WitnessAbsent ==
    /\ storageOp.op = "updateWord" /\ ~storageOp.wrote
    /\ Len(store) = 2

\* C31: handleGenerateDaily makes no request and changes nothing when the
\* task shown is dated today; a successful answer stores and shows a task
\* of the day of the request, a failed one sets the error and leaves the
\* stored task; and no answer replaces a stored task of its own day.
C31_OneDailyTaskPerDate ==
    [][/\ (HandleGenerateDaily /\ dailyTask # NoTask
                               /\ dailyTask.date = today)
              => UNCHANGED <<appState, dailyStored, requestVars>>
       /\ \A n \in 1..MaxRequests :
              /\ DailyArrives(n, TRUE) =>
                     /\ dailyStored'.date = requests[n].date
                     /\ dailyTask' = dailyStored'
                     /\ dailyStored.date # requests[n].date
              /\ DailyArrives(n, FALSE) =>
                     /\ error' = "Failed to generate daily words."
                     /\ dailyStored' = dailyStored]_vars

\* C32: handleGenerateNews on fewer than 5 saved words sets the error and
\* issues no request, loading and the article staying as they are; on 5 or
\* more it issues one request, for at most 10 words, each a word of the
\* list and none twice.
C32_NewsNeedsFiveWordsAsksForTen ==
    [][\A r \in Rotations, mirror \in BOOLEAN :
          HandleGenerateNews(r, mirror) =>
              IF Len(myList) < 5
              THEN /\ error' # Nothing
                   /\ UNCHANGED <<requests, pending, loading, newsArticle>>
              ELSE /\ Len(requests') = Len(requests) + 1
                   /\ pending' = pending \cup {Len(requests')}
                   /\ LET asked == requests'[Len(requests')]
                      IN /\ asked.kind = "news"
                         /\ Len(asked.words) <= 10
                         /\ \A i \in 1..Len(asked.words) :
                                /\ \E j \in 1..Len(myList) :
                                       myList[j].word = asked.words[i]
                                /\ \A j \in 1..Len(asked.words) :
                                       asked.words[j] = asked.words[i]
                                           => j = i]_vars
\* An article was asked for 10 of 11 saved words, in another order than
\* they are listed.
C32_Witness ==
    /\ appOp.op = "handleGenerateNews" /\ appOp.req # 0
    /\ Len(myList) = 11
    /\ Len(requests[appOp.req].words) = 10
    /\ requests[appOp.req].words[1] # myList[1].word
\* handleGenerateNews ran on a list of 4 words.
C32_WitnessTooFew ==
    /\ appOp.op = "handleGenerateNews" /\ appOp.req = 0
    /\ Len(myList) = 4
    /\ error # Nothing

\* C33: the answer to a lookup does not replace the displayed result of a
\* lookup issued after it.
C33_LaterLookupWins ==
    [][\A n \in 1..MaxRequests, ok \in BOOLEAN :
          (/\ LookupArrives(n, ok)
           /\ \E m \in (n + 1)..Len(requests) :
                  /\ requests[m].kind = "lookup" /\ m \notin pending
                  /\ lookupResult = requests[m].query
                  /\ requests[m].query # requests[n].query)
              => lookupResult' = lookupResult]_vars

\* The requests that set the loading flag and are not answered yet.
LoadingRequests ==
    {n \in pending : requests[n].kind \in {"lookup", "daily", "news"}}

\* C34: loading is true exactly while a lookup, daily or news request is in
\* flight.
C34_LoadingWhileInFlight == loading <=> LoadingRequests # {}

\* C35: there are never more than 5 suggestions, and when the timer of a
\* query of trimmed length 1 or less has fired, the suggestions are empty
\* and the dropdown is not shown.
C35_SuggestionsMatchQuery ==
    /\ Len(suggestions) <= 5
    /\ (TrimLength(lookupQuery) <= 1 /\ debounce = NoTimer)
           => suggestions = <<>> /\ ~DropdownShown

\* C36: at most one chat request is in flight, and a handleSend, typed or
\* spoken, that runs on empty or blank text or while a send awaits its
\* reply appends no message and sends nothing.
C36_OneSendInFlight ==
    [][/\ Cardinality(chatPending') <= 1
       /\ ((PressSend \/ \E transcript \in Transcripts : OnResult(transcript))
              /\ isLoading)
             => messages' = messages /\ sendLog' = sendLog
       /\ (PressSend /\ chatInput \in {"", " "})
             => messages' = messages /\ sendLog' = sendLog]_vars

\* C37: the transcript starts with the greeting and alternates user and
\* model messages.
C37_TranscriptAlternates ==
    /\ messages[1] = Greeting
    /\ \A i \in 1..Len(messages) :
           messages[i].role = IF i % 2 = 1 THEN "model" ELSE "user"

====
